---- MODULE Spec2Model ----
(***************************************************************************)
(* AnalogueClock (src/clock.js): the second-hand physics state machine and *)
(* the requestAnimationFrame scheduling that drives it.                    *)
(*                                                                         *)
(* Angles are fixed-point numbers, AngleScale units to the degree.         *)
(* Timestamps and durations are whole milliseconds.                        *)
(***************************************************************************)
EXTENDS Integers, FiniteSets, Sequences, TLC

VARIABLES
    config,                        \* this.config.secondHandPhysics
    isRunning,                     \* this.isRunning
    animationFrameId,              \* this.animationFrameId (NoFrameId = null)
    lastSystemSecond,              \* this.lastSystemSecond
    secondHandAnimationPhase,      \* this.secondHandAnimationPhase
    targetSecondBaseAngle,         \* this.targetSecondBaseAngle
    currentSecondHandVisualAngle,  \* this.currentSecondHandVisualAngle
    blurSecondHandEffect,          \* this.blurSecondHandEffect
    lastTimestamp,                 \* this.lastTimestamp
    rafQueue,                      \* host: handles of the requested, not yet run or cancelled, frame callbacks
    hostTime,                      \* host: timestamp handed to the most recent frame callback
    lastReading,                   \* observation: ClockReading of the latest accepted frame since start()
    sinceTick,                     \* observation: accepted no-tick frames since the latest tick frame since start()
    lastAcceptedAt,                \* observation: timestamp of the latest accepted frame ever
    call                           \* observation: what the most recent call did

vars == <<config, isRunning, animationFrameId, lastSystemSecond,
          secondHandAnimationPhase, targetSecondBaseAngle,
          currentSecondHandVisualAngle, blurSecondHandEffect, lastTimestamp,
          rafQueue, hostTime, lastReading, sinceTick, lastAcceptedAt, call>>

\* The fields of the instance (everything but the host and the observations).
instance == <<config, isRunning, animationFrameId, lastSystemSecond,
              secondHandAnimationPhase, targetSecondBaseAngle,
              currentSecondHandVisualAngle, blurSecondHandEffect, lastTimestamp>>

\* The fields of AnimationState (spec section 3) as one tuple.
animationState == <<secondHandAnimationPhase, lastSystemSecond, targetSecondBaseAngle,
                    currentSecondHandVisualAngle, blurSecondHandEffect>>

----------------------------------------------------------------------------
\* Bounds of the model.

AngleScale == 1000        \* fixed-point units per degree
MaxMinute == 1            \* readings carry minutes 0..MaxMinute
MaxTimestamp == 100       \* host timestamps run from 0 to MaxTimestamp

\* Values the inputs are drawn from.
SecondsSample == {0, 1, 59}
MillisSample == {0, 850, 880, 999}
HoursSample == {13}
FrameDeltas == {0, 10, 20}

ClockReadings ==
    [hours : HoursSample, minutes : 0..MaxMinute,
     seconds : SecondsSample, milliseconds : MillisSample]

NoReading == [hours |-> -1, minutes |-> -1, seconds |-> -1, milliseconds |-> -1]
NoFrameId == 0
NoTick == -1            \* sinceTick: no tick frame since start()
NoTimestamp == -1       \* lastAcceptedAt: no frame accepted yet
ManyFrames == 3         \* sinceTick counts no further
NoDraw == [hourAngle |-> -1, minuteAngle |-> -1, secondAngle |-> -1, blur |-> 0]

----------------------------------------------------------------------------
\* Configuration.

maxRefreshRateHz == 50

defaultSecondHandPhysics ==
    [creepDurationMs |-> 150,
     creepAngleDegrees |-> 2 * AngleScale,
     overshootDegrees |-> 2 * AngleScale,
     recoilDegrees |-> (-3 * AngleScale) \div 2]

\* userConfig.secondHandPhysics objects handed to the constructor: the one of
\* index.html, then partial ones overriding single keys.
UserConfigs ==
    << [creepDurationMs |-> 150, creepAngleDegrees |-> 2 * AngleScale,
        overshootDegrees |-> 2 * AngleScale,
        recoilDegrees |-> (-3 * AngleScale) \div 2],
       [overshootDegrees |-> -2 * AngleScale, recoilDegrees |-> 3 * AngleScale],
       [creepDurationMs |-> 0] >>

\* _deepMerge on the secondHandPhysics object: every key of source overrides.
DeepMerge(target, source) ==
    [key \in (DOMAIN target) \cup (DOMAIN source) |->
        IF key \in DOMAIN source THEN source[key] ELSE target[key]]

----------------------------------------------------------------------------
\* Pure helpers.

\* (seconds / 60) * 360
SecondBaseAngle(seconds) == (seconds * 360 * AngleScale) \div 60

\* (((hours % 12) + minutes / 60) / 12) * 360
HourAngle(now) == ((((now.hours % 12) * 60) + now.minutes) * 360 * AngleScale) \div (60 * 12)

\* Mutant of MinuteAngle: the minute hand steps once a minute.
MinuteAngleWholeMinutes(now) == (now.minutes * 360 * AngleScale) \div 60

\* ((minutes + seconds / 60) / 60) * 360
MinuteAngle(now) == (((now.minutes * 60) + now.seconds) * 360 * AngleScale) \div (60 * 60)

\* Milliseconds since midnight of a reading (wall-clock position).
WallMs(now) ==
    ((((now.hours * 60) + now.minutes) * 60) + now.seconds) * 1000 + now.milliseconds

Max(a, b) == IF a >= b THEN a ELSE b
Min(a, b) == IF a <= b THEN a ELSE b

\* window.requestAnimationFrame: a handle no pending request carries.
RequestAnimationFrame(queue) ==
    CHOOSE h \in 1..(Cardinality(queue) + 1) : h \notin queue

\* Mutant of CancelAnimationFrame: the request is left pending.
CancelNothing(queue, handle) == queue

\* window.cancelAnimationFrame
CancelAnimationFrame(queue, handle) == queue \ {handle}

----------------------------------------------------------------------------
\* The second hand physics step of _animationLoop, on a record st of the
\* AnimationState fields.

\* Mutant of StartState: start() resumes the phase the previous run left.
StartStateResumesPhase(now) ==
    [lastSystemSecond |-> (now.seconds + 59) % 60,
     targetSecondBaseAngle |-> SecondBaseAngle(now.seconds),
     currentSecondHandVisualAngle |-> SecondBaseAngle(now.seconds),
     secondHandAnimationPhase |-> secondHandAnimationPhase,
     blurSecondHandEffect |-> 0]

\* start(): the fields it assigns from `now = new Date()`.
StartState(now) ==
    [lastSystemSecond |-> (now.seconds + 59) % 60,
     targetSecondBaseAngle |-> SecondBaseAngle(now.seconds),
     currentSecondHandVisualAngle |-> SecondBaseAngle(now.seconds),
     secondHandAnimationPhase |-> "SETTLED",
     blurSecondHandEffect |-> 0]

\* Mutant of Throttled: half the minimum interval.
ThrottledHalfInterval(timestamp, last) ==
    (timestamp - last) * maxRefreshRateHz * 2 < 1000

\* delta < 1000 / maxRefreshRateHz
Throttled(timestamp, last) == (timestamp - last) * maxRefreshRateHz < 1000

\* Mutant of NewSecondDetected: only a later second is a tick.
NewSecondDetectedForwardOnly(currentSeconds, last) ==
    (currentSeconds - last + 60) % 60 \in 1..30

\* Mutant of NewSecondDetected: only the second after the last one is a tick.
NewSecondDetectedNextOnly(currentSeconds, last) == currentSeconds = (last + 1) % 60

\* currentSeconds !== this.lastSystemSecond
NewSecondDetected(currentSeconds, last) == currentSeconds # last

\* Mutant of TickStep: the tick leaves the base angle of the old second.
TickStepKeepsTarget(st, currentSeconds, physics) ==
    [st EXCEPT
        !.lastSystemSecond = currentSeconds,
        !.secondHandAnimationPhase = "OVERSHOOT",
        !.currentSecondHandVisualAngle =
            SecondBaseAngle(currentSeconds) + physics.overshootDegrees,
        !.blurSecondHandEffect = -1]

\* Mutant of TickStep: the overshoot jump carries no blur.
TickStepNoBlur(st, currentSeconds, physics) ==
    [st EXCEPT
        !.lastSystemSecond = currentSeconds,
        !.targetSecondBaseAngle = SecondBaseAngle(currentSeconds),
        !.secondHandAnimationPhase = "OVERSHOOT",
        !.currentSecondHandVisualAngle =
            SecondBaseAngle(currentSeconds) + physics.overshootDegrees]

\* Mutant of TickStep: the overshoot is added to the angle the hand is at.
TickStepAccumulates(st, currentSeconds, physics) ==
    [st EXCEPT
        !.lastSystemSecond = currentSeconds,
        !.targetSecondBaseAngle = SecondBaseAngle(currentSeconds),
        !.secondHandAnimationPhase = "OVERSHOOT",
        !.currentSecondHandVisualAngle =
            st.currentSecondHandVisualAngle + physics.overshootDegrees,
        !.blurSecondHandEffect = -1]

\* Mutant of TickStep: lastSystemSecond is not updated.
TickStepForgetsSecond(st, currentSeconds, physics) ==
    [st EXCEPT
        !.targetSecondBaseAngle = SecondBaseAngle(currentSeconds),
        !.secondHandAnimationPhase = "OVERSHOOT",
        !.currentSecondHandVisualAngle =
            SecondBaseAngle(currentSeconds) + physics.overshootDegrees,
        !.blurSecondHandEffect = -1]

\* if (newSecondDetected) { ... }
TickStep(st, currentSeconds, physics) ==
    [st EXCEPT
        !.lastSystemSecond = currentSeconds,
        !.targetSecondBaseAngle = SecondBaseAngle(currentSeconds),
        !.secondHandAnimationPhase = "OVERSHOOT",
        !.currentSecondHandVisualAngle =
            SecondBaseAngle(currentSeconds) + physics.overshootDegrees,
        !.blurSecondHandEffect = -1]

\* Mutant of RecoilStep: at the top of the dial the hand settles at once.
RecoilStepSkipsAtZero(st, physics) ==
    IF st.targetSecondBaseAngle = 0
    THEN [st EXCEPT
            !.secondHandAnimationPhase = "SETTLED",
            !.currentSecondHandVisualAngle = st.targetSecondBaseAngle,
            !.blurSecondHandEffect = -1]
    ELSE [st EXCEPT
            !.secondHandAnimationPhase = "RECOIL",
            !.currentSecondHandVisualAngle =
                st.targetSecondBaseAngle + physics.recoilDegrees,
            !.blurSecondHandEffect = 1]

\* Mutant of RecoilStep: the recoil is applied to the overshot angle.
RecoilStepFromVisual(st, physics) ==
    [st EXCEPT
        !.secondHandAnimationPhase = "RECOIL",
        !.currentSecondHandVisualAngle =
            st.currentSecondHandVisualAngle + physics.recoilDegrees,
        !.blurSecondHandEffect = 1]

\* case "OVERSHOOT"
RecoilStep(st, physics) ==
    [st EXCEPT
        !.secondHandAnimationPhase = "RECOIL",
        !.currentSecondHandVisualAngle =
            st.targetSecondBaseAngle + physics.recoilDegrees,
        !.blurSecondHandEffect = 1]

\* Mutant of SettleStep: the hand keeps the recoiled angle.
SettleStepKeepsAngle(st, physics) ==
    [st EXCEPT
        !.secondHandAnimationPhase = "SETTLED",
        !.blurSecondHandEffect = -1]

\* Mutant of SettleStep: the settle jump is drawn without blur.
SettleStepNoBlur(st, physics) ==
    [st EXCEPT
        !.secondHandAnimationPhase = "SETTLED",
        !.currentSecondHandVisualAngle = st.targetSecondBaseAngle]

\* case "RECOIL"
SettleStep(st, physics) ==
    [st EXCEPT
        !.secondHandAnimationPhase = "SETTLED",
        !.currentSecondHandVisualAngle = st.targetSecondBaseAngle,
        !.blurSecondHandEffect = -1]

\* Mutant of AdditionalCreepAngle: progress is taken from the time remaining.
AdditionalCreepAngleReversed(timeIntoCreepMs, physics) ==
    (Max(0, Min(physics.creepDurationMs, physics.creepDurationMs - timeIntoCreepMs))
        * physics.creepAngleDegrees) \div physics.creepDurationMs

\* creepProgress * creepAngleDegrees, creepProgress = clamp(timeIntoCreepMs / creepDurationMs)
AdditionalCreepAngle(timeIntoCreepMs, physics) ==
    (Max(0, Min(physics.creepDurationMs, timeIntoCreepMs)) * physics.creepAngleDegrees)
        \div physics.creepDurationMs

\* Mutant of CreepingStep: the time to the next tick is one millisecond short.
CreepingStepOffByOne(st, currentMilliseconds, physics) ==
    LET msUntilNextTick == 999 - currentMilliseconds IN
    IF msUntilNextTick > physics.creepDurationMs \/ msUntilNextTick < 0
    THEN [st EXCEPT
            !.secondHandAnimationPhase = "SETTLED",
            !.currentSecondHandVisualAngle = st.targetSecondBaseAngle]
    ELSE [st EXCEPT
            !.currentSecondHandVisualAngle =
                st.targetSecondBaseAngle +
                AdditionalCreepAngle(physics.creepDurationMs - msUntilNextTick, physics)]

\* Mutant of CreepingStep: leaving the window keeps the crept angle.
CreepingStepKeepsOffset(st, currentMilliseconds, physics) ==
    LET msUntilNextTick == 1000 - currentMilliseconds IN
    IF msUntilNextTick > physics.creepDurationMs \/ msUntilNextTick < 0
    THEN [st EXCEPT !.secondHandAnimationPhase = "SETTLED"]
    ELSE [st EXCEPT
            !.currentSecondHandVisualAngle =
                st.targetSecondBaseAngle +
                AdditionalCreepAngle(physics.creepDurationMs - msUntilNextTick, physics)]

\* Mutant of CreepingStep: the creep window is not tested again.
CreepingStepNoWindowCheck(st, currentMilliseconds, physics) ==
    LET msUntilNextTick == 1000 - currentMilliseconds IN
    IF physics.creepDurationMs <= 0
    THEN [st EXCEPT
            !.secondHandAnimationPhase = "SETTLED",
            !.currentSecondHandVisualAngle = st.targetSecondBaseAngle]
    ELSE [st EXCEPT
            !.currentSecondHandVisualAngle =
                st.targetSecondBaseAngle +
                AdditionalCreepAngle(physics.creepDurationMs - msUntilNextTick, physics)]

\* case "CREEPING" (also entered by fall-through from "SETTLED")
CreepingStep(st, currentMilliseconds, physics) ==
    LET msUntilNextTick == 1000 - currentMilliseconds IN
    IF msUntilNextTick > physics.creepDurationMs \/ msUntilNextTick < 0
    THEN [st EXCEPT
            !.secondHandAnimationPhase = "SETTLED",
            !.currentSecondHandVisualAngle = st.targetSecondBaseAngle]
    ELSE [st EXCEPT
            !.currentSecondHandVisualAngle =
                st.targetSecondBaseAngle +
                AdditionalCreepAngle(physics.creepDurationMs - msUntilNextTick, physics)]

\* Mutant of SettledStep: the window opens one millisecond early.
SettledStepEntersAtBoundary(st, currentMilliseconds, physics) ==
    LET millisecondsUntilNextTick == 1000 - currentMilliseconds IN
    IF millisecondsUntilNextTick - 1 <= physics.creepDurationMs
       /\ millisecondsUntilNextTick > 0
    THEN [st EXCEPT
            !.secondHandAnimationPhase = "CREEPING",
            !.currentSecondHandVisualAngle = st.targetSecondBaseAngle]
    ELSE [st EXCEPT !.currentSecondHandVisualAngle = st.targetSecondBaseAngle]

\* Mutant of SettledStep: the creep is deferred to the frame after the one
\* that enters CREEPING.
SettledStepDefersCreep(st, currentMilliseconds, physics) ==
    LET millisecondsUntilNextTick == 1000 - currentMilliseconds IN
    IF millisecondsUntilNextTick <= physics.creepDurationMs
       /\ millisecondsUntilNextTick > 0
    THEN [st EXCEPT
            !.secondHandAnimationPhase = "CREEPING",
            !.currentSecondHandVisualAngle = st.targetSecondBaseAngle]
    ELSE [st EXCEPT !.currentSecondHandVisualAngle = st.targetSecondBaseAngle]

\* Mutant of SettledStep: CREEPING is entered without the window test.
SettledStepIgnoresWindow(st, currentMilliseconds, physics) ==
    [st EXCEPT !.secondHandAnimationPhase = "CREEPING"]

\* case "SETTLED"
SettledStep(st, currentMilliseconds, physics) ==
    LET millisecondsUntilNextTick == 1000 - currentMilliseconds IN
    IF millisecondsUntilNextTick <= physics.creepDurationMs
       /\ millisecondsUntilNextTick > 0
    THEN CreepingStep([st EXCEPT !.secondHandAnimationPhase = "CREEPING"],
                      currentMilliseconds, physics)
    ELSE [st EXCEPT !.currentSecondHandVisualAngle = st.targetSecondBaseAngle]

\* default: (an unrecognised phase)
DefaultStep(st, currentSeconds) ==
    [st EXCEPT
        !.secondHandAnimationPhase = "SETTLED",
        !.targetSecondBaseAngle = SecondBaseAngle(currentSeconds),
        !.currentSecondHandVisualAngle = SecondBaseAngle(currentSeconds)]

\* Mutant of PhysicsStep: a tick that arrives during RECOIL waits for the settle.
PhysicsStepFinishesRecoil(st, now, physics) ==
    LET cleared == [st EXCEPT !.blurSecondHandEffect = 0] IN
    IF NewSecondDetected(now.seconds, st.lastSystemSecond)
       /\ st.secondHandAnimationPhase # "RECOIL"
    THEN TickStep(cleared, now.seconds, physics)
    ELSE CASE st.secondHandAnimationPhase = "OVERSHOOT" -> RecoilStep(cleared, physics)
           [] st.secondHandAnimationPhase = "RECOIL" -> SettleStep(cleared, physics)
           [] st.secondHandAnimationPhase = "SETTLED" ->
                SettledStep(cleared, now.milliseconds, physics)
           [] st.secondHandAnimationPhase = "CREEPING" ->
                CreepingStep(cleared, now.milliseconds, physics)
           [] OTHER -> DefaultStep(cleared, now.seconds)

\* Mutant of PhysicsStep: the blur of the previous frame is not cleared.
PhysicsStepKeepsBlur(st, now, physics) ==
    IF NewSecondDetected(now.seconds, st.lastSystemSecond)
    THEN TickStep(st, now.seconds, physics)
    ELSE CASE st.secondHandAnimationPhase = "OVERSHOOT" -> RecoilStep(st, physics)
           [] st.secondHandAnimationPhase = "RECOIL" -> SettleStep(st, physics)
           [] st.secondHandAnimationPhase = "SETTLED" ->
                SettledStep(st, now.milliseconds, physics)
           [] st.secondHandAnimationPhase = "CREEPING" ->
                CreepingStep(st, now.milliseconds, physics)
           [] OTHER -> DefaultStep(st, now.seconds)

\* The whole SECOND HAND PHYSICS LOGIC block for one reading.
PhysicsStep(st, now, physics) ==
    LET cleared == [st EXCEPT !.blurSecondHandEffect = 0] IN
    IF NewSecondDetected(now.seconds, st.lastSystemSecond)
    THEN TickStep(cleared, now.seconds, physics)
    ELSE CASE st.secondHandAnimationPhase = "OVERSHOOT" -> RecoilStep(cleared, physics)
           [] st.secondHandAnimationPhase = "RECOIL" -> SettleStep(cleared, physics)
           [] st.secondHandAnimationPhase = "SETTLED" ->
                SettledStep(cleared, now.milliseconds, physics)
           [] st.secondHandAnimationPhase = "CREEPING" ->
                CreepingStep(cleared, now.milliseconds, physics)
           [] OTHER -> DefaultStep(cleared, now.seconds)

\* The AnimationState fields of the current state, as a record.
State ==
    [lastSystemSecond |-> lastSystemSecond,
     targetSecondBaseAngle |-> targetSecondBaseAngle,
     currentSecondHandVisualAngle |-> currentSecondHandVisualAngle,
     secondHandAnimationPhase |-> secondHandAnimationPhase,
     blurSecondHandEffect |-> blurSecondHandEffect]

\* Assignment of a record of AnimationState fields to the instance.
Assign(st) ==
    /\ lastSystemSecond' = st.lastSystemSecond
    /\ targetSecondBaseAngle' = st.targetSecondBaseAngle
    /\ currentSecondHandVisualAngle' = st.currentSecondHandVisualAngle
    /\ secondHandAnimationPhase' = st.secondHandAnimationPhase
    /\ blurSecondHandEffect' = st.blurSecondHandEffect

\* How the wall clock moved between the previous accepted frame's reading and now.
Gap(prev, now) ==
    IF prev = NoReading THEN "first"
    ELSE IF WallMs(now) < WallMs(prev) THEN "backward"
    ELSE IF WallMs(now) - WallMs(prev) > 1000 THEN "skipped"
    ELSE "within"

\* The record of a call that is not an accepted frame.
Call(op, outcome, now) ==
    [op |-> op, outcome |-> outcome, now |-> now,
     prevPhase |-> secondHandAnimationPhase,
     prevAccepted |-> (lastAcceptedAt # NoTimestamp),
     secondsDiffer |-> FALSE, repeatSecond |-> FALSE, gap |-> "first",
     drawn |-> NoDraw]

\* The record of an accepted frame that read `now` and drew the state `next`.
AcceptedCall(now, next) ==
    [op |-> "_animationLoop", outcome |-> "accepted", now |-> now,
     prevPhase |-> secondHandAnimationPhase,
     prevAccepted |-> (lastAcceptedAt # NoTimestamp),
     secondsDiffer |-> (now.seconds # lastSystemSecond),
     repeatSecond |-> (lastReading # NoReading /\ lastReading.seconds = now.seconds),
     gap |-> Gap(lastReading, now),
     drawn |-> [hourAngle |-> HourAngle(now),
                minuteAngle |-> MinuteAngle(now),
                secondAngle |-> next.currentSecondHandVisualAngle,
                blur |-> next.blurSecondHandEffect]]

----------------------------------------------------------------------------
\* The instance after `new AnalogueClock(canvasId, userConfig)`.
Init ==
    /\ \E i \in DOMAIN UserConfigs :
          config = DeepMerge(defaultSecondHandPhysics, UserConfigs[i])
    /\ isRunning = FALSE
    /\ animationFrameId = NoFrameId
    /\ lastSystemSecond = -1
    /\ secondHandAnimationPhase = "SETTLED"
    /\ targetSecondBaseAngle = 0
    /\ currentSecondHandVisualAngle = 0
    /\ blurSecondHandEffect = 0
    /\ lastTimestamp = -1
    /\ rafQueue = {}
    /\ hostTime = 0
    /\ lastReading = NoReading
    /\ sinceTick = NoTick
    /\ lastAcceptedAt = NoTimestamp
    /\ call = [op |-> "constructor", outcome |-> "constructed", now |-> NoReading,
               prevPhase |-> "SETTLED", prevAccepted |-> FALSE,
               secondsDiffer |-> FALSE, repeatSecond |-> FALSE, gap |-> "first",
               drawn |-> NoDraw]

\* Mutant of Start: a start() of a running clock requests one more callback.
StartAlwaysRequests(now) ==
    IF isRunning
    THEN /\ call' = Call("start", "alreadyRunning", NoReading)
         /\ animationFrameId' = RequestAnimationFrame(rafQueue)
         /\ rafQueue' = rafQueue \cup {RequestAnimationFrame(rafQueue)}
         /\ UNCHANGED <<config, isRunning, animationState, lastTimestamp,
                        hostTime, lastReading, sinceTick, lastAcceptedAt>>
    ELSE /\ isRunning' = TRUE
         /\ Assign(StartState(now))
         /\ animationFrameId' = RequestAnimationFrame(rafQueue)
         /\ rafQueue' = rafQueue \cup {RequestAnimationFrame(rafQueue)}
         /\ lastReading' = NoReading
         /\ sinceTick' = NoTick
         /\ call' = Call("start", "started", now)
         /\ UNCHANGED <<config, lastTimestamp, hostTime, lastAcceptedAt>>

\* start()
Start(now) ==
    IF isRunning
    THEN /\ call' = Call("start", "alreadyRunning", NoReading)
         /\ UNCHANGED <<instance, rafQueue, hostTime, lastReading, sinceTick,
                        lastAcceptedAt>>
    ELSE /\ isRunning' = TRUE
         /\ Assign(StartState(now))
         /\ animationFrameId' = RequestAnimationFrame(rafQueue)
         /\ rafQueue' = rafQueue \cup {RequestAnimationFrame(rafQueue)}
         /\ lastReading' = NoReading
         /\ sinceTick' = NoTick
         /\ call' = Call("start", "started", now)
         /\ UNCHANGED <<config, lastTimestamp, hostTime, lastAcceptedAt>>

\* stop()
Stop ==
    IF ~isRunning
    THEN /\ call' = Call("stop", "notRunning", NoReading)
         /\ UNCHANGED <<instance, rafQueue, hostTime, lastReading, sinceTick,
                        lastAcceptedAt>>
    ELSE /\ isRunning' = FALSE
         /\ IF animationFrameId # NoFrameId
            THEN /\ rafQueue' = CancelAnimationFrame(rafQueue, animationFrameId)
                 /\ animationFrameId' = NoFrameId
            ELSE UNCHANGED <<rafQueue, animationFrameId>>
         /\ call' = Call("stop", "stopped", NoReading)
         /\ UNCHANGED <<config, lastSystemSecond, secondHandAnimationPhase,
                        targetSecondBaseAngle, currentSecondHandVisualAngle,
                        blurSecondHandEffect, lastTimestamp, hostTime, lastReading,
                        sinceTick, lastAcceptedAt>>

\* _animationLoop: `if (!this.isRunning) return;`
IgnoredFrame(queue) ==
    /\ rafQueue' = queue
    /\ call' = Call("_animationLoop", "ignored", NoReading)
    /\ UNCHANGED <<instance, lastReading, sinceTick, lastAcceptedAt>>

\* Mutant of ThrottledFrame: the throttled frame returns without a request.
ThrottledFrameDropsRequest(queue, timestamp) ==
    /\ rafQueue' = queue
    /\ call' = Call("_animationLoop", "throttled", NoReading)
    /\ UNCHANGED <<instance, lastReading, sinceTick, lastAcceptedAt>>

\* Mutant of ThrottledFrame: the throttled frame moves the reference timestamp.
ThrottledFrameMovesReference(queue, timestamp) ==
    /\ animationFrameId' = RequestAnimationFrame(queue)
    /\ rafQueue' = queue \cup {RequestAnimationFrame(queue)}
    /\ lastTimestamp' = timestamp
    /\ call' = Call("_animationLoop", "throttled", NoReading)
    /\ UNCHANGED <<config, isRunning, lastSystemSecond, secondHandAnimationPhase,
                   targetSecondBaseAngle, currentSecondHandVisualAngle,
                   blurSecondHandEffect, lastReading, sinceTick, lastAcceptedAt>>

\* _animationLoop: the throttle branch, which only requests the next callback.
ThrottledFrame(queue, timestamp) ==
    /\ animationFrameId' = RequestAnimationFrame(queue)
    /\ rafQueue' = queue \cup {RequestAnimationFrame(queue)}
    /\ call' = Call("_animationLoop", "throttled", NoReading)
    /\ UNCHANGED <<config, isRunning, lastSystemSecond, secondHandAnimationPhase,
                   targetSecondBaseAngle, currentSecondHandVisualAngle,
                   blurSecondHandEffect, lastTimestamp, lastReading, sinceTick,
                   lastAcceptedAt>>

\* _animationLoop: a frame that passes the throttle reads the clock, steps the
\* second hand, renders, and requests the next callback.
AcceptedFrame(queue, timestamp, now) ==
    LET next == PhysicsStep(State, now, config) IN
    /\ lastTimestamp' = timestamp
    /\ Assign(next)
    /\ IF isRunning
       THEN /\ animationFrameId' = RequestAnimationFrame(queue)
            /\ rafQueue' = queue \cup {RequestAnimationFrame(queue)}
       ELSE /\ rafQueue' = queue
            /\ UNCHANGED animationFrameId
    /\ lastReading' = now
    /\ sinceTick' = IF now.seconds # lastSystemSecond THEN 0
                    ELSE IF sinceTick = NoTick THEN NoTick
                    ELSE Min(ManyFrames, sinceTick + 1)
    /\ lastAcceptedAt' = timestamp
    /\ call' = AcceptedCall(now, next)
    /\ UNCHANGED <<config, isRunning>>

\* The host runs the requested callback `handle`: _animationLoop(timestamp),
\* whose `new Date()` yields `now`.
AnimationLoop(handle, timestamp, now) ==
    /\ handle \in rafQueue
    /\ timestamp >= hostTime
    /\ timestamp <= MaxTimestamp
    /\ hostTime' = timestamp
    /\ IF ~isRunning
       THEN IgnoredFrame(rafQueue \ {handle})
       ELSE IF Throttled(timestamp, lastTimestamp)
       THEN ThrottledFrame(rafQueue \ {handle}, timestamp)
       ELSE AcceptedFrame(rafQueue \ {handle}, timestamp, now)

\* A call of start(); its `new Date()` is reached only when the clock is stopped.
StartCall ==
    IF isRunning
    THEN Start(NoReading)
    ELSE \E now \in ClockReadings : Start(now)

\* The host runs one requested callback; its `new Date()` is reached only by a
\* frame that passes the isRunning and throttle tests.
FrameCallback ==
    \E handle \in rafQueue, delta \in FrameDeltas :
        IF isRunning /\ ~Throttled(hostTime + delta, lastTimestamp)
        THEN \E now \in ClockReadings : AnimationLoop(handle, hostTime + delta, now)
        ELSE AnimationLoop(handle, hostTime + delta, NoReading)

Next == StartCall \/ Stop \/ FrameCallback

Spec == Init /\ [][Next]_vars

----------------------------------------------------------------------------
\* The clock of index.html under every second of the minute: start() at any
\* second, and frames 20 ms apart whose reading is in the second last
\* observed, the next one or the one after.

SecondsPerMinute == 60

AllSecondsReadings(seconds, millis) ==
    [hours : HoursSample, minutes : {0}, seconds : seconds, milliseconds : millis]

InitIndexHtml ==
    /\ Init
    /\ config = DeepMerge(defaultSecondHandPhysics, UserConfigs[1])

StartAnySecond ==
    IF isRunning
    THEN Start(NoReading)
    ELSE \E now \in AllSecondsReadings(0..(SecondsPerMinute - 1), {0}) : Start(now)

FrameAnySecond ==
    \E handle \in rafQueue :
        IF isRunning /\ ~Throttled(hostTime + 20, lastTimestamp)
        THEN \E now \in AllSecondsReadings(
                    {(lastSystemSecond + k) % SecondsPerMinute : k \in 0..2},
                    {0, 800, 880}) :
                AnimationLoop(handle, hostTime + 20, now)
        ELSE AnimationLoop(handle, hostTime + 20, NoReading)

NextAllSeconds == StartAnySecond \/ Stop \/ FrameAnySecond

SpecAllSeconds == InitIndexHtml /\ [][NextAllSeconds]_vars

----------------------------------------------------------------------------
\* The clock of index.html under a host that keeps delivering callbacks with
\* later timestamps (weak fairness of the advancing callback), as browsers do
\* for a visible page; callbacks that repeat the timestamp, start() and stop()
\* may come at any time.

HostReadings == AllSecondsReadings({0, 1}, {0, 880})

StartHost ==
    IF isRunning
    THEN Start(NoReading)
    ELSE \E now \in HostReadings : Start(now)

\* The host runs one requested callback `delta` ms after the one before.
HostCallback(delta) ==
    \E handle \in rafQueue :
        IF isRunning /\ ~Throttled(hostTime + delta, lastTimestamp)
        THEN \E now \in HostReadings : AnimationLoop(handle, hostTime + delta, now)
        ELSE AnimationLoop(handle, hostTime + delta, NoReading)

RepeatedCallback == HostCallback(0)

AdvancingCallback == \E delta \in FrameDeltas \ {0} : HostCallback(delta)

NextHostAdvances == StartHost \/ Stop \/ RepeatedCallback \/ AdvancingCallback

SpecHostAdvances ==
    InitIndexHtml /\ [][NextHostAdvances]_vars /\ WF_vars(AdvancingCallback)

----------------------------------------------------------------------------
\* Claims.

\* The snapped angle of second s, s/60*360 degrees.
SnappedAngle(s) == 6 * s * AngleScale

AcceptedFrameDone == call.op = "_animationLoop" /\ call.outcome = "accepted"

\* C1: an accepted frame whose reading.seconds differs from lastObservedSecond,
\* in whatever phase it arrives, leaves lastObservedSecond = reading.seconds,
\* targetBaseAngle = reading.seconds/60*360, phase OVERSHOOT, visualAngle = that
\* base angle + overshootDegrees, and blurDirection -1.
C1_TickEntersOvershoot ==
    (AcceptedFrameDone /\ call.secondsDiffer) =>
        /\ lastSystemSecond = call.now.seconds
        /\ targetSecondBaseAngle = SnappedAngle(call.now.seconds)
        /\ secondHandAnimationPhase = "OVERSHOOT"
        /\ currentSecondHandVisualAngle =
              SnappedAngle(call.now.seconds) + config.overshootDegrees
        /\ blurSecondHandEffect = -1
        /\ call.drawn.secondAngle = currentSecondHandVisualAngle
        /\ call.drawn.blur = -1

\* A tick frame that arrived while the hand was creeping.
C1_Witness ==
    /\ AcceptedFrameDone
    /\ call.secondsDiffer
    /\ call.prevPhase = "CREEPING"
    /\ secondHandAnimationPhase = "OVERSHOOT"

\* C2: for every second s in 0..59, a tick frame for s followed by two accepted
\* no-tick frames ends in phase SETTLED with visualAngle exactly s/60*360 =
\* targetBaseAngle.
C2_ExactSettle ==
    (AcceptedFrameDone /\ sinceTick = 2) =>
        /\ secondHandAnimationPhase = "SETTLED"
        /\ currentSecondHandVisualAngle = SnappedAngle(call.now.seconds)
        /\ currentSecondHandVisualAngle = targetSecondBaseAngle

\* The second no-tick frame after a tick for second 37, with a recoil that is
\* not zero.
C2_Witness ==
    /\ AcceptedFrameDone
    /\ sinceTick = 2
    /\ call.now.seconds = 37
    /\ call.prevPhase = "RECOIL"
    /\ config.recoilDegrees # 0
    /\ config.overshootDegrees # 0
    /\ secondHandAnimationPhase = "SETTLED"

\* A PhysicsConfig the data model allows.
ValidPhysics == config.creepDurationMs > 0 /\ config.creepAngleDegrees >= 0

\* C3 as claimed: after every accepted frame, for every allowed PhysicsConfig,
\* visualAngle lies in [targetBaseAngle + min(0, recoilDegrees),
\* targetBaseAngle + max(creepAngleDegrees, overshootDegrees)].
C3_Original ==
    (AcceptedFrameDone /\ ValidPhysics) =>
        /\ currentSecondHandVisualAngle >=
              targetSecondBaseAngle + Min(0, config.recoilDegrees)
        /\ currentSecondHandVisualAngle <=
              targetSecondBaseAngle
                + Max(config.creepAngleDegrees, config.overshootDegrees)

\* C3 amended: after every accepted frame, for every allowed PhysicsConfig,
\* visualAngle lies in [targetBaseAngle + min(0, overshootDegrees, recoilDegrees),
\* targetBaseAngle + max(creepAngleDegrees, overshootDegrees, recoilDegrees)].
C3_BoundedExcursion ==
    (AcceptedFrameDone /\ ValidPhysics) =>
        /\ currentSecondHandVisualAngle >=
              targetSecondBaseAngle
                + Min(0, Min(config.overshootDegrees, config.recoilDegrees))
        /\ currentSecondHandVisualAngle <=
              targetSecondBaseAngle
                + Max(config.creepAngleDegrees,
                      Max(config.overshootDegrees, config.recoilDegrees))

\* A frame that leaves the hand at the lower end of the amended interval, below
\* the claimed one.
C3_Witness ==
    /\ AcceptedFrameDone
    /\ ValidPhysics
    /\ config.overshootDegrees < Min(0, config.recoilDegrees)
    /\ secondHandAnimationPhase = "OVERSHOOT"
    /\ currentSecondHandVisualAngle = targetSecondBaseAngle + config.overshootDegrees

\* C4: when two consecutive accepted frames (of one run of the clock) carry the
\* same reading.seconds, the second one declares no tick and does not leave the
\* hand in a newly entered OVERSHOOT.
C4_TickIdempotence ==
    (AcceptedFrameDone /\ call.repeatSecond) =>
        /\ ~(secondHandAnimationPhase = "OVERSHOOT")
        /\ sinceTick # 0
        /\ lastSystemSecond = call.now.seconds

\* The frame right after a tick frame, carrying the same second.
C4_Witness ==
    /\ AcceptedFrameDone
    /\ call.repeatSecond
    /\ call.prevPhase = "OVERSHOOT"
    /\ secondHandAnimationPhase = "RECOIL"

\* C5 as claimed: whenever more than one second of wall-clock time elapsed since
\* the previous accepted frame, whatever the gap, the frame is a tick frame: the
\* hand is in OVERSHOOT at the current second's base angle + overshootDegrees.
C5_Original ==
    (AcceptedFrameDone /\ call.gap = "skipped") =>
        /\ secondHandAnimationPhase = "OVERSHOOT"
        /\ sinceTick = 0
        /\ targetSecondBaseAngle = SnappedAngle(call.now.seconds)
        /\ currentSecondHandVisualAngle =
              SnappedAngle(call.now.seconds) + config.overshootDegrees

\* C5 amended: whenever more than one second of wall-clock time elapsed since
\* the previous accepted frame and the reading's seconds value differs from
\* that frame's, the frame is one tick frame: the hand is in OVERSHOOT at the
\* current second's base angle + overshootDegrees, no intermediate second
\* having been stepped through.
C5_SkippedSeconds ==
    (AcceptedFrameDone /\ call.gap = "skipped" /\ ~call.repeatSecond) =>
        /\ secondHandAnimationPhase = "OVERSHOOT"
        /\ sinceTick = 0
        /\ lastSystemSecond = call.now.seconds
        /\ targetSecondBaseAngle = SnappedAngle(call.now.seconds)
        /\ currentSecondHandVisualAngle =
              SnappedAngle(call.now.seconds) + config.overshootDegrees

\* A frame two seconds after the previous one (second 59, then second 1 of the
\* next minute), the hand having been settled.
C5_Witness ==
    /\ AcceptedFrameDone
    /\ call.gap = "skipped"
    /\ ~call.repeatSecond
    /\ call.prevPhase = "SETTLED"
    /\ call.now.seconds = 1
    /\ call.now.minutes = 1
    /\ secondHandAnimationPhase = "OVERSHOOT"

\* C6: while the clock is stopped no frame callback is outstanding (stop()
\* cancels the pending one), and every call made while it stays stopped, a
\* repeated stop() or a stop() before any start() included, changes nothing of
\* the instance, requests no callback, reads no clock and renders nothing.
C6_StopHalts ==
    /\ [](~isRunning => rafQueue = {})
    /\ [][(~isRunning /\ ~isRunning') =>
            /\ UNCHANGED <<instance, rafQueue, lastReading, lastAcceptedAt>>
            /\ call'.now = NoReading
            /\ call'.drawn = NoDraw]_vars

\* The clock stopped in the middle of a run, after a frame was processed.
C6_Witness ==
    /\ call.op = "stop"
    /\ call.outcome = "stopped"
    /\ lastReading # NoReading
    /\ ~isRunning
    /\ rafQueue = {}

C8_ThrottlePassthrough ==
    [][(/\ isRunning
        /\ call'.op = "_animationLoop"
        /\ lastAcceptedAt # NoTimestamp
        /\ hostTime' - lastAcceptedAt < 20) =>
            /\ UNCHANGED <<animationState, lastTimestamp, isRunning, config,
                           lastReading, lastAcceptedAt>>
            /\ call'.outcome = "throttled"
            /\ call'.now = NoReading
            /\ call'.drawn = NoDraw
            /\ Cardinality(rafQueue') = 1
            /\ animationFrameId' \in rafQueue']_vars

\* A throttled frame that came while the hand was in OVERSHOOT.
C8_Witness ==
    /\ call.op = "_animationLoop"
    /\ call.outcome = "throttled"
    /\ call.prevAccepted
    /\ secondHandAnimationPhase = "OVERSHOOT"
    /\ hostTime > lastTimestamp

\* C9 as claimed: the first accepted frame after start() is a tick frame,
\* whatever second it reads: the hand is in OVERSHOOT for that second.
C9_FirstFrameTicks ==
    (AcceptedFrameDone /\ call.gap = "first") =>
        /\ secondHandAnimationPhase = "OVERSHOOT"
        /\ sinceTick = 0
        /\ lastSystemSecond = call.now.seconds
        /\ currentSecondHandVisualAngle =
              SnappedAngle(call.now.seconds) + config.overshootDegrees

\* C10: every start() that starts the clock, whatever the previous run left,
\* sets phase SETTLED, blurDirection 0, targetBaseAngle = visualAngle =
\* currentSecond/60*360 and lastObservedSecond = (currentSecond - 1) mod 60.
C10_StartReinitialises ==
    (call.op = "start" /\ call.outcome = "started") =>
        /\ isRunning
        /\ secondHandAnimationPhase = "SETTLED"
        /\ blurSecondHandEffect = 0
        /\ targetSecondBaseAngle = SnappedAngle(call.now.seconds)
        /\ currentSecondHandVisualAngle = SnappedAngle(call.now.seconds)
        /\ lastSystemSecond =
              (IF call.now.seconds = 0 THEN 59 ELSE call.now.seconds - 1)
        /\ lastReading = NoReading

\* A start() after a stop() that left the hand recoiled for another second.
C10_Witness ==
    /\ call.op = "start"
    /\ call.outcome = "started"
    /\ call.prevPhase = "RECOIL"
    /\ call.prevAccepted
    /\ secondHandAnimationPhase = "SETTLED"
    /\ lastSystemSecond = 59

\* 1000 - currentMilliseconds, the time left until the next whole second.
MsUntilNextTick(now) == 1000 - now.milliseconds

\* visualAngle - targetBaseAngle, the offset of the hand from its snapped angle.
CreepOffset == currentSecondHandVisualAngle - targetSecondBaseAngle

\* C11: an accepted frame that reads the second already observed while the
\* phase is OVERSHOOT moves to RECOIL, leaves targetBaseAngle as it was, draws
\* the hand at targetBaseAngle + recoilDegrees and emits blurDirection +1.
C11_OvershootRecoils ==
    [][(/\ call'.op = "_animationLoop"
        /\ call'.outcome = "accepted"
        /\ ~call'.secondsDiffer
        /\ secondHandAnimationPhase = "OVERSHOOT") =>
            /\ secondHandAnimationPhase' = "RECOIL"
            /\ targetSecondBaseAngle' = targetSecondBaseAngle
            /\ lastSystemSecond' = lastSystemSecond
            /\ currentSecondHandVisualAngle' =
                  targetSecondBaseAngle + config.recoilDegrees
            /\ blurSecondHandEffect' = 1
            /\ call'.drawn.secondAngle = currentSecondHandVisualAngle'
            /\ call'.drawn.blur = 1]_vars

\* The recoil frame of a configuration whose recoil and overshoot both move
\* the hand.
C11_Witness ==
    /\ AcceptedFrameDone
    /\ ~call.secondsDiffer
    /\ call.prevPhase = "OVERSHOOT"
    /\ secondHandAnimationPhase = "RECOIL"
    /\ config.recoilDegrees # 0
    /\ config.overshootDegrees # 0
    /\ currentSecondHandVisualAngle = targetSecondBaseAngle + config.recoilDegrees

\* C12: an accepted frame that reads the second already observed while the
\* phase is RECOIL moves to SETTLED, draws the hand exactly at targetBaseAngle
\* and emits blurDirection -1.
C12_RecoilSettles ==
    (AcceptedFrameDone /\ ~call.secondsDiffer /\ call.prevPhase = "RECOIL") =>
        /\ secondHandAnimationPhase = "SETTLED"
        /\ currentSecondHandVisualAngle = targetSecondBaseAngle
        /\ targetSecondBaseAngle = SnappedAngle(call.now.seconds)
        /\ blurSecondHandEffect = -1
        /\ call.drawn.secondAngle = targetSecondBaseAngle
        /\ call.drawn.blur = -1

\* The settle frame of a configuration whose recoil had moved the hand off the
\* snapped angle.
C12_Witness ==
    /\ AcceptedFrameDone
    /\ ~call.secondsDiffer
    /\ call.prevPhase = "RECOIL"
    /\ secondHandAnimationPhase = "SETTLED"
    /\ config.recoilDegrees # 0
    /\ blurSecondHandEffect = -1

\* C13: an accepted frame that reads the second already observed while the
\* phase is SETTLED, with 0 < msUntilNextTick <= creepDurationMs, ends in
\* CREEPING with the hand already at targetBaseAngle +
\* ((creepDurationMs - msUntilNextTick) / creepDurationMs) * creepAngleDegrees
\* and blurDirection 0: the creep is not put off to the next frame.
C13_CreepStartsAtOnce ==
    (/\ AcceptedFrameDone
     /\ ~call.secondsDiffer
     /\ call.prevPhase = "SETTLED"
     /\ MsUntilNextTick(call.now) > 0
     /\ MsUntilNextTick(call.now) <= config.creepDurationMs) =>
        /\ secondHandAnimationPhase = "CREEPING"
        /\ currentSecondHandVisualAngle =
              targetSecondBaseAngle +
              ((config.creepDurationMs - MsUntilNextTick(call.now))
                    * config.creepAngleDegrees) \div config.creepDurationMs
        /\ blurSecondHandEffect = 0
        /\ call.drawn.secondAngle = currentSecondHandVisualAngle
        /\ call.drawn.blur = 0

\* A SETTLED hand at second 1 that reads 880 ms: 30 ms into the 150 ms creep
\* of 2 degrees, drawn at 6.4 degrees.
C13_Witness ==
    /\ AcceptedFrameDone
    /\ ~call.secondsDiffer
    /\ call.prevPhase = "SETTLED"
    /\ call.now.seconds = 1
    /\ call.now.milliseconds = 880
    /\ secondHandAnimationPhase = "CREEPING"
    /\ targetSecondBaseAngle = 6 * AngleScale
    /\ currentSecondHandVisualAngle = 6 * AngleScale + (2 * AngleScale) \div 5

\* C14 as stated: of two consecutive accepted frames that both end in
\* CREEPING, the second has a creep offset at least as large as the first,
\* whatever the two readings are.
C14_Original ==
    [][(/\ call'.op = "_animationLoop"
        /\ call'.outcome = "accepted"
        /\ secondHandAnimationPhase = "CREEPING"
        /\ secondHandAnimationPhase' = "CREEPING") =>
            CreepOffset' >= CreepOffset]_vars

\* C14: of two consecutive accepted frames that both end in CREEPING, when the
\* milliseconds read by the second are not less than those read by the first,
\* the second has a creep offset at least as large as the first; and every
\* CREEPING offset lies between 0 and creepAngleDegrees (progress in [0, 1]).
C14_MonotonicCreep ==
    /\ [](secondHandAnimationPhase = "CREEPING" =>
            /\ CreepOffset >= 0
            /\ CreepOffset <= config.creepAngleDegrees)
    /\ [][(/\ call'.op = "_animationLoop"
           /\ call'.outcome = "accepted"
           /\ secondHandAnimationPhase = "CREEPING"
           /\ secondHandAnimationPhase' = "CREEPING"
           /\ call'.now.milliseconds >= lastReading.milliseconds) =>
               /\ CreepOffset' >= CreepOffset
               /\ targetSecondBaseAngle' = targetSecondBaseAngle]_vars

\* A creeping hand that creeps on, 999 ms into the second it was creeping in.
C14_Witness ==
    /\ AcceptedFrameDone
    /\ call.prevPhase = "CREEPING"
    /\ secondHandAnimationPhase = "CREEPING"
    /\ call.gap = "within"
    /\ call.now.milliseconds = 999
    /\ CreepOffset > 0

\* C15: an accepted frame that reads the second already observed while the
\* phase is CREEPING, with msUntilNextTick > creepDurationMs or negative,
\* moves to SETTLED, leaves targetBaseAngle as it was, draws the hand exactly
\* there and emits blurDirection 0.
C15_CreepAbandoned ==
    [][(/\ call'.op = "_animationLoop"
        /\ call'.outcome = "accepted"
        /\ ~call'.secondsDiffer
        /\ secondHandAnimationPhase = "CREEPING"
        /\ \/ MsUntilNextTick(call'.now) > config.creepDurationMs
           \/ MsUntilNextTick(call'.now) < 0) =>
            /\ secondHandAnimationPhase' = "SETTLED"
            /\ targetSecondBaseAngle' = targetSecondBaseAngle
            /\ currentSecondHandVisualAngle' = targetSecondBaseAngle
            /\ blurSecondHandEffect' = 0
            /\ call'.drawn.secondAngle = targetSecondBaseAngle
            /\ call'.drawn.blur = 0]_vars

\* A creeping hand that reads the same second again, before its creep window.
C15_Witness ==
    /\ AcceptedFrameDone
    /\ ~call.secondsDiffer
    /\ call.prevPhase = "CREEPING"
    /\ MsUntilNextTick(call.now) > config.creepDurationMs
    /\ secondHandAnimationPhase = "SETTLED"
    /\ currentSecondHandVisualAngle = targetSecondBaseAngle

\* C16 as stated: an accepted frame whose reading is earlier than that of the
\* accepted frame before it either is a tick (phase OVERSHOOT) or leaves
\* SETTLED with the hand at targetBaseAngle.
C16_Original ==
    (AcceptedFrameDone /\ call.gap = "backward") =>
        \/ (call.secondsDiffer /\ secondHandAnimationPhase = "OVERSHOOT")
        \/ /\ secondHandAnimationPhase = "SETTLED"
           /\ currentSecondHandVisualAngle = targetSecondBaseAngle

\* C16: an accepted frame whose reading is earlier than that of the accepted
\* frame before it is a tick (phase OVERSHOOT) when its seconds differ from
\* lastObservedSecond; otherwise it takes the no-tick step of its phase: from
\* CREEPING it goes to SETTLED at targetBaseAngle when the reading is outside
\* the creep window, and it ends in CREEPING only with a reading inside the
\* window and the offset computed from that reading.
C16_BackwardReading ==
    (AcceptedFrameDone /\ call.gap = "backward") =>
        /\ call.secondsDiffer =>
            /\ secondHandAnimationPhase = "OVERSHOOT"
            /\ lastSystemSecond = call.now.seconds
            /\ targetSecondBaseAngle = SnappedAngle(call.now.seconds)
        /\ (/\ ~call.secondsDiffer
            /\ call.prevPhase = "CREEPING"
            /\ MsUntilNextTick(call.now) > config.creepDurationMs) =>
                /\ secondHandAnimationPhase = "SETTLED"
                /\ currentSecondHandVisualAngle = targetSecondBaseAngle
        /\ secondHandAnimationPhase = "CREEPING" =>
            /\ ~call.secondsDiffer
            /\ call.prevPhase \in {"SETTLED", "CREEPING"}
            /\ MsUntilNextTick(call.now) <= config.creepDurationMs
            /\ CreepOffset =
                  ((config.creepDurationMs - MsUntilNextTick(call.now))
                        * config.creepAngleDegrees) \div config.creepDurationMs

\* A creeping hand that reads an earlier instant of the same creep window and
\* creeps on from there.
C16_Witness ==
    /\ AcceptedFrameDone
    /\ call.gap = "backward"
    /\ call.prevPhase = "CREEPING"
    /\ secondHandAnimationPhase = "CREEPING"
    /\ call.now.milliseconds = 850
    /\ CreepOffset = 0

\* C17 as stated: after every accepted frame that ends in SETTLED or CREEPING
\* the blurDirection drawn is 0.
C17_Original ==
    (AcceptedFrameDone /\ secondHandAnimationPhase \in {"SETTLED", "CREEPING"}) =>
        /\ blurSecondHandEffect = 0
        /\ call.drawn.blur = 0

\* C17: after every accepted frame that ends in SETTLED or CREEPING the
\* blurDirection drawn is 0, except the frame of the jump from RECOIL to
\* SETTLED, which draws blurDirection -1.
C17_BlurOnlyOnJumps ==
    (AcceptedFrameDone /\ secondHandAnimationPhase \in {"SETTLED", "CREEPING"}) =>
        IF call.prevPhase = "RECOIL"
        THEN /\ secondHandAnimationPhase = "SETTLED"
             /\ blurSecondHandEffect = -1
             /\ call.drawn.blur = -1
        ELSE /\ blurSecondHandEffect = 0
             /\ call.drawn.blur = 0

\* The frame after the settle jump: the hand rests in SETTLED and the blur of
\* the jump is gone.
C17_Witness ==
    /\ AcceptedFrameDone
    /\ sinceTick = ManyFrames
    /\ call.prevPhase = "SETTLED"
    /\ secondHandAnimationPhase = "SETTLED"
    /\ blurSecondHandEffect = 0

\* C18: every frame a running clock processes uses a positive creepDurationMs,
\* a non-positive value supplied to the constructor having been replaced.
C18_SafeDefault ==
    AcceptedFrameDone => config.creepDurationMs > 0

\* C19: start() on a running clock changes no field of the instance and
\* requests no callback.
C19_StartIdempotent ==
    [][(isRunning /\ call'.op = "start") =>
            /\ UNCHANGED <<instance, rafQueue>>
            /\ call'.outcome = "alreadyRunning"]_vars

\* start() called on a running clock whose hand is creeping.
C19_Witness ==
    /\ call.op = "start"
    /\ call.outcome = "alreadyRunning"
    /\ isRunning
    /\ secondHandAnimationPhase = "CREEPING"
    /\ CreepOffset > 0
    /\ Cardinality(rafQueue) = 1

\* C20: an accepted frame that reads the second already observed while the
\* phase is SETTLED, with msUntilNextTick > creepDurationMs, ends in SETTLED
\* with the hand at targetBaseAngle and blurDirection 0.
C20_SettledStays ==
    (/\ AcceptedFrameDone
     /\ ~call.secondsDiffer
     /\ call.prevPhase = "SETTLED"
     /\ MsUntilNextTick(call.now) > config.creepDurationMs) =>
        /\ secondHandAnimationPhase = "SETTLED"
        /\ currentSecondHandVisualAngle = targetSecondBaseAngle
        /\ blurSecondHandEffect = 0
        /\ call.drawn.secondAngle = targetSecondBaseAngle
        /\ call.drawn.blur = 0

\* A SETTLED hand of a creeping configuration that reads the start of a second.
C20_Witness ==
    /\ AcceptedFrameDone
    /\ ~call.secondsDiffer
    /\ call.prevPhase = "SETTLED"
    /\ call.now.milliseconds = 0
    /\ config.creepDurationMs > 0
    /\ secondHandAnimationPhase = "SETTLED"

\* The creep lead of the README: "CREEPING: 300ms before next tick".
ReadmeCreepMs == 300

\* C21: with the default configuration, an accepted frame that reads the
\* second already observed while the phase is SETTLED, 300 ms or less before
\* the next second, ends in CREEPING with the hand up to 2 degrees forward.
C21_DefaultCreepWindow ==
    (/\ AcceptedFrameDone
     /\ ~call.secondsDiffer
     /\ call.prevPhase = "SETTLED"
     /\ config = defaultSecondHandPhysics
     /\ MsUntilNextTick(call.now) > 0
     /\ MsUntilNextTick(call.now) <= ReadmeCreepMs) =>
        /\ secondHandAnimationPhase = "CREEPING"
        /\ CreepOffset >= 0
        /\ CreepOffset <= 2 * AngleScale

\* C22 as stated: in every state of a started clock whose phase is SETTLED,
\* OVERSHOOT or RECOIL, the state between start() and the first accepted frame
\* included, targetBaseAngle is the snapped angle of lastObservedSecond.
C22_Original ==
    (/\ call.op # "constructor"
     /\ secondHandAnimationPhase \in {"SETTLED", "OVERSHOOT", "RECOIL"}) =>
        targetSecondBaseAngle = SnappedAngle(lastSystemSecond)

\* C22: in every state that follows the first tick frame of a run, and whose
\* phase is SETTLED, OVERSHOOT or RECOIL, targetBaseAngle is the snapped angle
\* of lastObservedSecond; from start() to that tick frame targetBaseAngle is the
\* snapped angle of the second after lastObservedSecond.
C22_TargetIsSnappedSecond ==
    /\ (/\ sinceTick # NoTick
        /\ secondHandAnimationPhase \in {"SETTLED", "OVERSHOOT", "RECOIL"}) =>
            targetSecondBaseAngle = SnappedAngle(lastSystemSecond)
    /\ (call.op # "constructor" /\ sinceTick = NoTick) =>
            targetSecondBaseAngle =
                SnappedAngle((lastSystemSecond + 1) % SecondsPerMinute)

\* The settled hand of a stopped clock, three or more frames after the tick
\* to second 59.
C22_Witness ==
    /\ ~isRunning
    /\ sinceTick = ManyFrames
    /\ secondHandAnimationPhase = "SETTLED"
    /\ lastSystemSecond = 59
    /\ targetSecondBaseAngle = 354 * AngleScale

\* The phase that follows `phase` on an accepted frame, from the three inputs
\* alone.
NextPhase(phase, tick, msUntilNextTick, physics) ==
    IF tick THEN "OVERSHOOT"
    ELSE IF phase = "OVERSHOOT" THEN "RECOIL"
    ELSE IF phase = "RECOIL" THEN "SETTLED"
    ELSE IF msUntilNextTick > 0 /\ msUntilNextTick <= physics.creepDurationMs
         THEN "CREEPING"
         ELSE "SETTLED"

\* Animation states of another run in the same phase: other seconds, base
\* angles, visual angle and blur.
OtherStates(phase) ==
    [lastSystemSecond : SecondsSample,
     targetSecondBaseAngle : {SnappedAngle(0), SnappedAngle(59)},
     currentSecondHandVisualAngle : {SnappedAngle(1)},
     secondHandAnimationPhase : {phase},
     blurSecondHandEffect : {1}]

\* Readings of another run with the same milliseconds.
OtherReadings(milliseconds) ==
    {r \in ClockReadings : r.milliseconds = milliseconds}

\* C23: the phase after an accepted frame is a function of the phase before,
\* of whether reading.seconds differs from lastObservedSecond and of
\* msUntilNextTick, defined for every combination: another run of the same
\* configuration that agrees on these three, whatever its hours, minutes,
\* second, base angle, visual angle and blur, reaches the same phase.
C23_TransitionDeterminism ==
    [][(call'.op = "_animationLoop" /\ call'.outcome = "accepted") =>
            /\ secondHandAnimationPhase' =
                  NextPhase(secondHandAnimationPhase, call'.secondsDiffer,
                            MsUntilNextTick(call'.now), config)
            /\ \A st \in OtherStates(secondHandAnimationPhase),
                  now \in OtherReadings(call'.now.milliseconds) :
                    (NewSecondDetected(now.seconds, st.lastSystemSecond)
                        = call'.secondsDiffer) =>
                        PhysicsStep(st, now, config).secondHandAnimationPhase
                            = secondHandAnimationPhase']_vars

\* A frame in the second minute that finds the hand settled on second 59 and
\* starts the creep.
C23_Witness ==
    /\ AcceptedFrameDone
    /\ call.now.minutes = MaxMinute
    /\ call.prevPhase = "SETTLED"
    /\ lastSystemSecond = 59
    /\ secondHandAnimationPhase = "CREEPING"

MinutesPerHour == 60

\* The reading `now` at another minute of the hour.
AtMinute(now, minutes) == [now EXCEPT !.minutes = minutes]

\* C24 as stated: the minute-hand angle handed to the renderer is
\* (minutes + seconds/60) / 60 * 6 * 10 degrees.
C24_Original ==
    AcceptedFrameDone =>
        call.drawn.minuteAngle =
            ((call.now.minutes * 60 + call.now.seconds) * AngleScale * 6 * 10)
                \div (60 * 60)

\* C24: the minute-hand angle handed to the renderer is
\* (minutes + seconds/60) / 60 * 360 degrees, that is a tenth of a degree for
\* each second of the hour, for the reading of the frame and for the same
\* second at each of the 60 minutes.
C24_MinuteHandAngle ==
    AcceptedFrameDone =>
        /\ call.drawn.minuteAngle =
              ((call.now.minutes * 60 + call.now.seconds) * AngleScale) \div 10
        /\ \A minutes \in 0..(MinutesPerHour - 1) :
              MinuteAngle(AtMinute(call.now, minutes)) =
                  ((minutes * 60 + call.now.seconds) * AngleScale) \div 10

\* A frame at second 37 of minute 0: the minute hand is drawn at 3.7 degrees.
C24_Witness ==
    /\ AcceptedFrameDone
    /\ call.now.minutes = 0
    /\ call.now.seconds = 37
    /\ call.drawn.minuteAngle = (37 * AngleScale) \div 10

\* C25: in every state at most one frame callback is requested: exactly one,
\* the one animationFrameId names, while the clock is running, and none while
\* it is stopped.
C25_OneCallbackOutstanding ==
    /\ Cardinality(rafQueue) <= 1
    /\ isRunning => (Cardinality(rafQueue) = 1 /\ animationFrameId \in rafQueue)
    /\ ~isRunning => rafQueue = {}

\* A restarted clock whose first callback came within 20 ms of the last frame
\* of the run before and was throttled: one successor is requested.
C25_Witness ==
    /\ isRunning
    /\ call.op = "_animationLoop"
    /\ call.outcome = "throttled"
    /\ call.prevAccepted
    /\ lastReading = NoReading
    /\ Cardinality(rafQueue) = 1

\* C26: in every state, SETTLED has visualAngle = targetBaseAngle, OVERSHOOT
\* has visualAngle = targetBaseAngle + overshootDegrees, RECOIL has
\* visualAngle = targetBaseAngle + recoilDegrees, and CREEPING has visualAngle
\* = targetBaseAngle + p * creepAngleDegrees for a p in [0, 1].
C26_PhaseAngleConsistency ==
    /\ secondHandAnimationPhase \in {"SETTLED", "OVERSHOOT", "RECOIL", "CREEPING"}
    /\ secondHandAnimationPhase = "SETTLED" => CreepOffset = 0
    /\ secondHandAnimationPhase = "OVERSHOOT" => CreepOffset = config.overshootDegrees
    /\ secondHandAnimationPhase = "RECOIL" => CreepOffset = config.recoilDegrees
    /\ secondHandAnimationPhase = "CREEPING" =>
        /\ config.creepDurationMs > 0
        /\ \E timeIntoCreepMs \in 0..config.creepDurationMs :
              CreepOffset =
                  (timeIntoCreepMs * config.creepAngleDegrees)
                      \div config.creepDurationMs

\* A clock stopped while its hand was creeping: the crept angle stays.
C26_Witness ==
    /\ ~isRunning
    /\ call.op = "stop"
    /\ secondHandAnimationPhase = "CREEPING"
    /\ CreepOffset > 0

\* C27: under a host whose callbacks keep coming with later timestamps, a
\* running clock whose last call was not an accepted frame gets a frame
\* accepted, unless it is stopped first (as long as the modelled timestamps
\* leave room for one minimum interval).
C27_ThrottleLiveness ==
    (isRunning /\ ~AcceptedFrameDone /\ hostTime + 20 <= MaxTimestamp)
        ~> (AcceptedFrameDone \/ ~isRunning)

\* A running clock whose callback came 10 ms after its last accepted frame
\* and was throttled, with timestamps left for a later callback.
C27_Witness ==
    /\ isRunning
    /\ call.op = "_animationLoop"
    /\ call.outcome = "throttled"
    /\ call.prevAccepted
    /\ hostTime = lastTimestamp + 10
    /\ hostTime + 20 <= MaxTimestamp

\* C28: OVERSHOOT is entered only by a tick frame, and RECOIL only by the
\* no-tick frame that follows the OVERSHOOT frame; CREEPING is entered only by
\* a no-tick frame that starts in SETTLED or CREEPING; a tick frame that
\* starts in OVERSHOOT or RECOIL ends in OVERSHOOT for the second it read.
C28_PhaseSuccession ==
    /\ secondHandAnimationPhase = "OVERSHOOT" => sinceTick = 0
    /\ secondHandAnimationPhase = "RECOIL" => sinceTick = 1
    /\ AcceptedFrameDone =>
        /\ secondHandAnimationPhase = "OVERSHOOT" => call.secondsDiffer
        /\ secondHandAnimationPhase = "RECOIL" =>
              (~call.secondsDiffer /\ call.prevPhase = "OVERSHOOT")
        /\ secondHandAnimationPhase = "CREEPING" =>
              (~call.secondsDiffer /\ call.prevPhase \in {"SETTLED", "CREEPING"})
        /\ (call.secondsDiffer /\ call.prevPhase \in {"OVERSHOOT", "RECOIL"}) =>
              /\ secondHandAnimationPhase = "OVERSHOOT"
              /\ lastSystemSecond = call.now.seconds
              /\ targetSecondBaseAngle = SnappedAngle(call.now.seconds)
              /\ CreepOffset = config.overshootDegrees

\* A tick that arrives while the hand is in RECOIL for the second before.
C28_Witness ==
    /\ AcceptedFrameDone
    /\ call.secondsDiffer
    /\ call.prevPhase = "RECOIL"
    /\ call.gap = "within"
    /\ secondHandAnimationPhase = "OVERSHOOT"

\* C29: every reading has msUntilNextTick in 1..1000; so a frame that ends in
\* CREEPING is at least 0 and less than creepDurationMs into the creep
\* (progress in [0, 1)), the hand stays short of targetBaseAngle +
\* creepAngleDegrees, and a creep is only ever abandoned because
\* msUntilNextTick > creepDurationMs, never because it is negative.
C29_CreepNeverCompletes ==
    /\ AcceptedFrameDone =>
        /\ MsUntilNextTick(call.now) >= 1
        /\ MsUntilNextTick(call.now) <= 1000
        /\ secondHandAnimationPhase = "CREEPING" =>
              /\ config.creepDurationMs - MsUntilNextTick(call.now) >= 0
              /\ config.creepDurationMs - MsUntilNextTick(call.now)
                    < config.creepDurationMs
        /\ (/\ ~call.secondsDiffer
            /\ call.prevPhase = "CREEPING"
            /\ secondHandAnimationPhase = "SETTLED") =>
                MsUntilNextTick(call.now) > config.creepDurationMs
    /\ secondHandAnimationPhase = "CREEPING" =>
        /\ CreepOffset >= 0
        /\ config.creepAngleDegrees > 0 => CreepOffset < config.creepAngleDegrees

\* The last millisecond of a second: 149 ms into the 150 ms creep, the hand
\* is 149/150 of the creep angle forward.
C29_Witness ==
    /\ AcceptedFrameDone
    /\ secondHandAnimationPhase = "CREEPING"
    /\ call.now.milliseconds = 999
    /\ config.creepDurationMs = 150
    /\ CreepOffset = (149 * config.creepAngleDegrees) \div 150
    /\ CreepOffset < config.creepAngleDegrees

\* Zero and negative values of creepDurationMs.
NonPositiveDurations == {-150, -1, 0}

\* C30: with creepDurationMs zero or negative the phase is never CREEPING and
\* the hand is at targetBaseAngle, targetBaseAngle + overshootDegrees or
\* targetBaseAngle + recoilDegrees; and from every state outside CREEPING, a
\* frame with any reading under a zero or negative creepDurationMs does not
\* end in CREEPING.
C30_NoCreepWithoutDuration ==
    /\ config.creepDurationMs <= 0 =>
        /\ secondHandAnimationPhase # "CREEPING"
        /\ CreepOffset \in {0, config.overshootDegrees, config.recoilDegrees}
    /\ secondHandAnimationPhase # "CREEPING" =>
        \A duration \in NonPositiveDurations, now \in ClockReadings :
            LET next == PhysicsStep(State, now,
                                    [config EXCEPT !.creepDurationMs = duration])
            IN  /\ next.secondHandAnimationPhase # "CREEPING"
                /\ next.currentSecondHandVisualAngle - next.targetSecondBaseAngle
                      \in {0, config.overshootDegrees, config.recoilDegrees}

\* A clock with creepDurationMs = 0 whose settled hand reads the last
\* millisecond of its second and stays settled.
C30_Witness ==
    /\ config.creepDurationMs = 0
    /\ AcceptedFrameDone
    /\ ~call.secondsDiffer
    /\ call.prevPhase = "SETTLED"
    /\ call.now.milliseconds = 999
    /\ sinceTick = ManyFrames
    /\ secondHandAnimationPhase = "SETTLED"

====
